---- MODULE Spec2Model ----
(***************************************************************************)
(* Model of fbpic/fields/spectral_transform/hankel.py: the class DHT       *)
(* (Discrete Hankel Transform): its constructor, the two accessors and the *)
(* two transform methods, on the CPU path (np.dot) and on the GPU path     *)
(* (layout-converting copy, cuBLAS gemm, copy back).                       *)
(*                                                                         *)
(* Numbers.  The arrays of the code hold float64 / complex128 values, some *)
(* of them values of Bessel functions.  They are abstracted by the finite  *)
(* field GF(Q): sum, product and quotient are exact there, so a matrix     *)
(* inverse is an exact inverse and "equal within tolerance" is equality.   *)
(* The Bessel values themselves (scipy.special.jn, jn_zeros) are not        *)
(* computed: jn is abstracted by Jn below, which keeps J_p(0) = [p = 0]    *)
(* and keeps the matrix of Bessel rows non-singular, as the real one is.   *)
(*                                                                         *)
(* Memory.  A host array is its shape and its flat row-major (C order)     *)
(* memory; a device array is flat column-major (Fortran order) memory.     *)
(***************************************************************************)
EXTENDS Integers, Sequences, FiniteSets, TLC

\* ------------------------------------------------------------------ bounds
MaxP == 5
MaxNr == 3
MaxNz == 2
MaxRmax == 2
NumThreads == 2

\* ------------------------------------------------- arithmetic of the arrays
\* The modulus of the field that stands for float64 / complex128.
Q == 11
\* np.pi, as an element of the field.
PiF == 3

Mod(x) == x % Q

RECURSIVE Pow(_, _)
Pow(b, e) == IF e = 0 THEN 1 ELSE Mod(b * Pow(b, e - 1))

\* 1/a, for a /= 0.  No division of the code has a zero divisor (line 109
\* leaves out row 0, whose divisor may be 0): the CHOOSE has no value there.
InvF(a) == CHOOSE b \in 1..(Q - 1) : Mod(a * b) = 1

Div(a, b) == Mod(a * InvF(b))

RECURSIVE SumTo(_, _)
\* f[1] + ... + f[n] in the field
SumTo(f, n) == IF n = 0 THEN 0 ELSE Mod(f[n] + SumTo(f, n - 1))

\* --------------------------------------------- matrices (sequences of rows)
Identity(n) == [i \in 1..n |-> [j \in 1..n |-> IF i = j THEN 1 ELSE 0]]

\* The transpose of A, which has n columns (n is given: A may have no row).
Transpose(A, n) == [j \in 1..n |-> [i \in 1..Len(A) |-> A[i][j]]]

\* A . B, where B has n columns
MatMul(A, B, n) ==
    [i \in 1..Len(A) |->
        [j \in 1..n |->
            SumTo([k \in 1..Len(B) |-> Mod(A[i][k] * B[k][j])], Len(B))]]

\* A without row r and column c
Minor(A, r, c) ==
    [i \in 1..(Len(A) - 1) |->
        [j \in 1..(Len(A) - 1) |->
            A[IF i < r THEN i ELSE i + 1][IF j < c THEN j ELSE j + 1]]]

RECURSIVE Det(_)
Det(A) ==
    IF Len(A) = 0 THEN 1
    ELSE SumTo([j \in 1..Len(A) |->
                  Mod((IF j % 2 = 1 THEN 1 ELSE Q - 1) * A[1][j]
                      * Det(Minor(A, 1, j)))], Len(A))

\* np.linalg.inv of a square matrix with a non-zero determinant
Inverse(A) ==
    [i \in 1..Len(A) |->
        [j \in 1..Len(A) |->
            Mod((IF (i + j) % 2 = 0 THEN 1 ELSE Q - 1)
                * Det(Minor(A, j, i)) * InvF(Det(A)))]]

\* np.linalg.pinv of B, which has n columns and full row rank:
\* B^T (B B^T)^-1, an n x Len(B) matrix
PInv(B, n) ==
    MatMul(Transpose(B, n), Inverse(MatMul(B, Transpose(B, n), Len(B))), Len(B))

\* ------------------------------------------------------------- exceptions
NoError == "none"
InvalidModeError == "ValueError: m must be either p-1, p or p+1"
NameErrorN == "NameError: name 'N' is not defined"
SingularError == "LinAlgError: Singular matrix"
ShapeMismatchError == "ValueError: The shape of F or G is different from the shape chosen at initialization."
DotShapeError == "ValueError: np.dot: shapes not aligned, or output array is not acceptable"

\* ---------------------------------------------------------------- __init__
\* the check of line 72 without its lower end: m = p-2 and below pass
ValidMode_NoLowerEnd(p, m) == m <= p + 1

\* line 72: m in [p-1, p, p+1]
ValidMode(p, m) == m \in {p - 1, p, p + 1}

\* lines 82-87: the zeros of the Bessel function of order m, each named by its
\* rank k >= 1 (the k-th positive zero); 0 is the value 0 put in front when
\* m /= 0, followed by the first Nr-1 zeros
Alphas(m, Nr) ==
    IF m # 0 THEN <<0>> \o [k \in 1..(Nr - 1) |-> k]
    ELSE [k \in 1..Nr |-> k]

\* line 90: nu = 1/(2 pi rmax) * alphas; each frequency keeps the zero it is
\* made of and the rmax it is scaled by
NuGrid(alphas, rmax) ==
    [i \in 1..Len(alphas) |-> [zero |-> alphas[i], rmax |-> rmax]]

\* line 93: r = (rmax/Nr) * (arange(Nr) + 0.5)
RGrid(Nr, rmax) ==
    [i \in 1..Nr |-> Mod(Div(rmax, Nr) * Div(2 * (i - 1) + 1, 2))]

\* scipy.special.jn(p, alpha_k * x), alpha_k the zero of rank k (0: the value
\* 0).  J_p(0) is 1 for p = 0 and 0 otherwise; elsewhere the stand-in x^(p+k).
Jn(p, k, x) ==
    IF k = 0 THEN (IF p = 0 THEN 1 ELSE 0) ELSE Pow(x, p + k)

\* lines 101-104
PDenom(p, m) == IF p = m THEN p + 1 ELSE p

\* line 105: denom = pi * rmax**2 * jn(p_denom, alphas)**2
Denom(p, m, alphas, rmax) ==
    [i \in 1..Len(alphas) |->
        Mod(PiF * rmax * rmax * Jn(PDenom(p, m), alphas[i], 1)
            * Jn(PDenom(p, m), alphas[i], 1))]

\* line 106: num[i, j] = jn(p, 2 pi r[j] nu[i]); 2 pi r[j] nu[i] is
\* alpha_i * r[j] / rmax
Num(p, r, nu) ==
    [i \in 1..Len(nu) |->
        [j \in 1..Len(r) |-> Jn(p, nu[i].zero, Div(r[j], nu[i].rmax))]]

\* lines 100-115: the matrix invM
InvMatrix(p, m, Nr, rmax, r, nu) ==
    LET alphas == [i \in 1..Nr |-> nu[i].zero]
        num == Num(p, r, nu)
    IN  [i \in 1..Nr |->
            [j \in 1..Nr |->
                IF m # 0 /\ i = 1
                THEN (IF p = m - 1
                      THEN Div(Pow(r[j], m - 1), PiF * Pow(rmax, m + 1))
                      ELSE 0)
                ELSE Div(num[i][j], Denom(p, m, alphas, rmax)[i])]]

\* lines 119-123: the matrix M, computed from invM
ForwardMatrix(p, m, Nr, invM) ==
    IF m # 0 /\ p # m - 1
    THEN LET P == PInv(Tail(invM), Nr)
         IN  [i \in 1..Nr |-> <<0>> \o P[i]]
    ELSE Inverse(invM)

\* np.asfortranarray(A): the column-major memory of a matrix with `rows` rows
\* and `cols` columns
AsFortran(A, rows, cols) ==
    [x \in 1..(rows * cols) |-> A[((x - 1) % rows) + 1][((x - 1) \div rows) + 1]]

\* np.zeros((Nz, Nr), order='F'), as memory
ZeroArray(Nz, Nr) == [x \in 1..(Nz * Nr) |-> 0]

\* self before __init__ has assigned anything (<<>>: the attribute is not set)
BlankSelf ==
    [attrs |-> {}, use_cuda |-> FALSE, blas |-> FALSE,
     d_in |-> <<>>, d_out |-> <<>>, shape |-> <<0, 0>>,
     p |-> 0, m |-> 0, Nr |-> 0, rmax |-> 0,
     nu |-> <<>>, r |-> <<>>, invM |-> <<>>, M |-> <<>>,
     d_M |-> <<>>, d_invM |-> <<>>]

NoArgs == [p |-> 0, m |-> 0, Nr |-> 0, Nz |-> 0, rmax |-> 0, use_cuda |-> FALSE]

\* ------------------------------------------------ transform, inverse_transform
\* A host array (C order): its shape and its row-major memory.
NoArray == [shape |-> <<0, 0>>, data |-> <<>>]

\* np.dot(A, B, out=G) for a host array A and a matrix B with n columns: the
\* row-major memory written to G
DotData(A, B, n) ==
    [x \in 1..(A.shape[1] * n) |->
        SumTo([k \in 1..Len(B) |->
                  Mod(A.data[((x - 1) \div n) * A.shape[2] + k]
                      * B[k][((x - 1) % n) + 1])], Len(B))]

\* np.dot(A, B, out=G) is accepted when the inner sizes agree and G has the
\* shape of the product
DotAccepts(A, B, n, G) ==
    /\ A.shape[2] = Len(B)
    /\ G.shape = <<A.shape[1], n>>

\* cuda_copy_2d_to_2d, host to device: the element at [i, j] of the row-major
\* array goes to [i, j] of the column-major buffer
CopyToDevice(A) ==
    [x \in 1..(A.shape[1] * A.shape[2]) |->
        A.data[((x - 1) % A.shape[1]) * A.shape[2] + ((x - 1) \div A.shape[1]) + 1]]

\* cuda_copy_2d_to_2d, device to host: the element at [i, j] of the
\* column-major buffer goes to [i, j] of the row-major array of shape `shape`
CopyToHost(d, shape) ==
    [x \in 1..(shape[1] * shape[2]) |->
        d[((x - 1) % shape[2]) * shape[1] + ((x - 1) \div shape[2]) + 1]]

\* blas.gemm('N', 'N', m, n, k, alpha, A, B, beta, C) on column-major memory:
\* C := alpha * A.B + beta * C, A of m x k, B of k x n, C of m x n
Gemm(m, n, k, alpha, A, B, beta, C) ==
    [x \in 1..(m * n) |->
        Mod(alpha * SumTo([l \in 1..k |->
                              Mod(A[((x - 1) % m) + 1 + (l - 1) * m]
                                  * B[l + ((x - 1) \div m) * k])], k)
            + beta * C[x])]

\* lines 173 and 202: the shapes of both arguments against the scratch buffers
ShapesAgree(inp, out, s) == inp.shape = s.shape /\ out.shape = s.shape

\* the matrix a method multiplies by (lines 185, 214) and its device copy
\* (lines 180, 209)
HostMatrix(op, s) == IF op = "transform" THEN s.M ELSE s.invM
DeviceMatrix(op, s) == IF op = "transform" THEN s.d_M ELSE s.d_invM

NoCall ==
    [pc |-> "idle", op |-> "none", path |-> "none", inp |-> NoArray,
     out |-> NoArray, exc |-> NoError, ret |-> <<>>,
     passed |-> NoArray]    \* the input array as the caller passed it

Threads == 1..NumThreads

VARIABLES
    cuda_installed, \* the module's flag (line 16), set when the module is loaded
    line118,        \* the name line 118 reads for the size of M: "N" as written
    serialized,     \* whether the callers serialize their calls on the instance
    pc,             \* where the constructor call is
    args,           \* the arguments of the constructor call
    self,           \* the attributes of the object under construction / built
    exc,            \* the exception the constructor call ended with
    calls           \* per calling thread: the method call it is in

env == <<cuda_installed, line118, serialized>>
vars == <<cuda_installed, line118, serialized, pc, args, self, exc, calls>>

\* the call DHT(p, m, Nr, Nz, rmax, use_cuda): a new object, nothing set yet
New(p, m, Nr, Nz, rmax, use_cuda) ==
    /\ pc = "idle"
    /\ args' = [p |-> p, m |-> m, Nr |-> Nr, Nz |-> Nz, rmax |-> rmax,
                use_cuda |-> use_cuda]
    /\ self' = BlankSelf
    /\ exc' = NoError
    /\ pc' = "L55"
    /\ UNCHANGED <<env, calls>>

\* lines 55-59: the execution mode of the instance
RegisteredMode(use_cuda, installed) ==
    IF use_cuda /\ ~installed THEN FALSE ELSE use_cuda

\* lines 60-69: the BLAS handle and the two scratch buffers, when the mode is GPU
WithDeviceBuffers(s, Nz, Nr) ==
    IF s.use_cuda
    THEN [s EXCEPT !.blas = TRUE,
                   !.d_in = ZeroArray(Nz, Nr),
                   !.d_out = ZeroArray(Nz, Nr),
                   !.shape = <<Nz, Nr>>,
                   !.attrs = @ \cup {"blas", "d_in", "d_out", "dim_grid", "dim_block"}]
    ELSE s

\* lines 53-69
InitCuda ==
    /\ pc = "L55"
    /\ self' = WithDeviceBuffers(
                   [self EXCEPT !.use_cuda = RegisteredMode(args.use_cuda, cuda_installed),
                                !.attrs = @ \cup {"use_cuda"}],
                   args.Nz, args.Nr)
    /\ pc' = "L72"
    /\ UNCHANGED <<env, args, exc, calls>>

\* lines 71-73
CheckMode ==
    /\ pc = "L72"
    /\ IF ValidMode(args.p, args.m)
       THEN pc' = "L76" /\ exc' = exc
       ELSE pc' = "raised" /\ exc' = InvalidModeError
    /\ UNCHANGED <<env, args, self, calls>>

\* lines 75-93
Grids ==
    /\ pc = "L76"
    /\ self' = [self EXCEPT !.p = args.p, !.m = args.m, !.Nr = args.Nr,
                            !.rmax = args.rmax,
                            !.nu = NuGrid(Alphas(args.m, args.Nr), args.rmax),
                            !.r = RGrid(args.Nr, args.rmax),
                            !.attrs = @ \cup {"p", "m", "Nr", "rmax", "nu", "r"}]
    /\ pc' = "L100"
    /\ UNCHANGED <<env, args, exc, calls>>

\* lines 95-115
BuildInvM ==
    /\ pc = "L100"
    /\ self' = [self EXCEPT !.invM = InvMatrix(args.p, args.m, args.Nr, args.rmax,
                                               self.r, self.nu),
                            !.attrs = @ \cup {"invM"}]
    /\ pc' = "L118"
    /\ UNCHANGED <<env, args, exc, calls>>

\* lines 125-132: the device copies of M and invM, when the mode is GPU
WithDeviceMatrices(s) ==
    IF s.use_cuda
    THEN [s EXCEPT !.d_M = AsFortran(s.M, s.Nr, s.Nr),
                   !.d_invM = AsFortran(s.invM, s.Nr, s.Nr),
                   !.attrs = @ \cup {"d_M", "d_invM"}]
    ELSE s

\* lines 117-132.  Line 118 reads the name N, which nothing in the module
\* binds: the read raises NameError.
BuildM ==
    /\ pc = "L118"
    /\ IF line118 = "N"
       THEN pc' = "raised" /\ exc' = NameErrorN /\ self' = self
       ELSE IF (args.m # 0 /\ args.p # args.m - 1) \/ Det(self.invM) # 0
       THEN /\ self' = WithDeviceMatrices(
                           [self EXCEPT !.M = ForwardMatrix(args.p, args.m, args.Nr,
                                                            self.invM),
                                        !.attrs = @ \cup {"M"}])
            /\ pc' = "ready"
            /\ exc' = exc
       ELSE pc' = "raised" /\ exc' = SingularError /\ self' = self
    /\ UNCHANGED <<env, args, calls>>

\* ---------------------------------------------------------- method calls
\* the output array as the caller hands it over: every cell holds Stale
Stale == Q - 1
StaleArray(shape) ==
    [shape |-> shape, data |-> [x \in 1..(shape[1] * shape[2]) |-> Stale]]

\* the arrays a caller passes: all zero, or a single 1 in one cell
UnitArrays(shape) ==
    {[shape |-> shape,
      data |-> [x \in 1..(shape[1] * shape[2]) |-> IF x = c THEN 1 ELSE 0]] :
        c \in 0..(shape[1] * shape[2])}

\* the shapes a caller may pass: the configured one, and one more row or column
CallShapes == {<<args.Nz, args.Nr>>, <<args.Nz + 1, args.Nr>>,
               <<args.Nz, args.Nr + 1>>}

\* lines 157-175 and 185, 188-204 and 214: the call of transform(F, G) or
\* inverse_transform(G, F) by thread t, up to the CPU product (line 185 / 214)
\* or, on the GPU path, up to the check of the shapes (line 173 / 202)
Enter(t, op, inp, out) ==
    /\ pc = "ready"
    /\ calls[t].pc = "idle"
    /\ serialized => \A u \in Threads \ {t} : calls[u].pc = "idle"
    /\ LET c == [NoCall EXCEPT !.op = op, !.inp = inp, !.out = out,
                               !.passed = inp] IN
       IF self.use_cuda
       THEN IF ShapesAgree(inp, out, self)
            THEN calls' = [calls EXCEPT ![t] = [c EXCEPT !.path = "gpu", !.pc = "L177"]]
            ELSE calls' = [calls EXCEPT ![t] = [c EXCEPT !.path = "gpu", !.pc = "raised",
                                                          !.exc = ShapeMismatchError]]
       ELSE IF DotAccepts(inp, HostMatrix(op, self), self.Nr, out)
            THEN calls' = [calls EXCEPT ![t] =
                              [c EXCEPT !.path = "cpu", !.pc = "returned",
                                        !.out.data = DotData(inp, HostMatrix(op, self),
                                                             self.Nr)]]
            ELSE calls' = [calls EXCEPT ![t] = [c EXCEPT !.path = "cpu", !.pc = "raised",
                                                          !.exc = DotShapeError]]
    /\ UNCHANGED <<env, pc, args, self, exc>>

\* lines 177 and 206
CopyIn(t) ==
    /\ calls[t].pc = "L177"
    /\ self' = [self EXCEPT !.d_in = CopyToDevice(calls[t].inp)]
    /\ calls' = [calls EXCEPT ![t].pc = "L179"]
    /\ UNCHANGED <<env, pc, args, exc>>

\* lines 179-180 and 208-209
Multiply(t) ==
    /\ calls[t].pc = "L179"
    /\ self' = [self EXCEPT !.d_out =
                   Gemm(calls[t].inp.shape[1], calls[t].inp.shape[2],
                        calls[t].inp.shape[2], 1, self.d_in,
                        DeviceMatrix(calls[t].op, self), 0, self.d_out)]
    /\ calls' = [calls EXCEPT ![t].pc = "L182"]
    /\ UNCHANGED <<env, pc, args, exc>>

\* lines 182 and 211
CopyOut(t) ==
    /\ calls[t].pc = "L182"
    /\ calls' = [calls EXCEPT ![t].pc = "returned",
                              ![t].out.data = CopyToHost(self.d_out, calls[t].out.shape)]
    /\ UNCHANGED <<env, pc, args, self, exc>>

\* lines 135-154: get_r() and get_nu()
Get(t, op) ==
    /\ pc = "ready"
    /\ calls[t].pc = "idle"
    /\ calls' = [calls EXCEPT ![t] =
                    [NoCall EXCEPT !.op = op, !.pc = "returned",
                                   !.ret = IF op = "get_r" THEN self.r ELSE self.nu]]
    /\ UNCHANGED <<env, pc, args, self, exc>>

\* the caller takes the result (or the exception) of its call
Finish(t) ==
    /\ calls[t].pc \in {"returned", "raised"}
    /\ calls' = [calls EXCEPT ![t] = NoCall]
    /\ UNCHANGED <<env, pc, args, self, exc>>

\* ------------------------------------------------------------ the program
\* the steps of a constructor call
InitSteps == InitCuda \/ CheckMode \/ Grids \/ BuildInvM \/ BuildM

\* the steps of the method calls of thread t, its arrays of the shapes S
CallSteps(t, S) ==
    \/ \E op \in {"transform", "inverse_transform"}, si \in S, so \in S :
          \E inp \in UnitArrays(si) : Enter(t, op, inp, StaleArray(so))
    \/ CopyIn(t)
    \/ Multiply(t)
    \/ CopyOut(t)
    \/ \E op \in {"get_r", "get_nu"} : Get(t, op)
    \/ Finish(t)

Start(n118, ser) ==
    /\ cuda_installed \in BOOLEAN
    /\ line118 = n118
    /\ serialized = ser
    /\ calls = [t \in Threads |-> NoCall]
    /\ pc = "idle"
    /\ args = NoArgs
    /\ self = BlankSelf
    /\ exc = NoError

\* The program as written.  No method call is among its steps: Enter and Get
\* wait for pc = "ready", which BuildM never sets while line 118 reads N.
Init == Start("N", TRUE)

Next ==
    \/ \E p \in 0..MaxP, d \in -2..2, Nr \in 1..MaxNr, Nz \in 1..MaxNz,
          rmax \in 1..MaxRmax, use_cuda \in BOOLEAN :
          New(p, p + d, Nr, Nz, rmax, use_cuda)
    \/ InitSteps

Spec == Init /\ [][Next]_vars

\* ------------------------------------------ the program with line 118 repaired
\* The same program with Nr read at line 118 (what the documentation of the
\* repository describes): the constructor returns and methods are called, one
\* call at a time.
RepMaxP == 2

InitRepaired == Start("Nr", TRUE)

NextRepaired ==
    \/ \E p \in 0..RepMaxP, d \in -2..2, Nr \in 1..MaxNr, Nz \in 1..MaxNz,
          rmax \in 1..MaxRmax, use_cuda \in BOOLEAN :
          New(p, p + d, Nr, Nz, rmax, use_cuda)
    \/ InitSteps
    \/ \E t \in Threads : CallSteps(t, CallShapes)

SpecRepaired == InitRepaired /\ [][NextRepaired]_vars

\* The repaired program with callers that do not serialize their calls.
RaceNr == 2

InitRace == Start("Nr", FALSE)

NextRace ==
    \/ \E p \in 0..1, Nz \in 1..MaxNz, use_cuda \in BOOLEAN :
          New(p, p, RaceNr, Nz, 1, use_cuda)
    \/ InitSteps
    \/ \E t \in Threads : CallSteps(t, {<<args.Nz, args.Nr>>})

SpecRace == InitRace /\ [][NextRace]_vars

\* ------------------------------------------------------------------ claims
\* a constructor call has ended, by returning or by raising
Done == pc \in {"ready", "raised"}

\* the arguments are a valid configuration: m is p-1, p or p+1
ValidArgs == args.m = args.p - 1 \/ args.m = args.p \/ args.m = args.p + 1

IsSquare(A, n) == Len(A) = n /\ \A i \in 1..Len(A) : Len(A[i]) = n

\* what a method call run alone writes to its output array
CpuResult(op, inp, s) == DotData(inp, HostMatrix(op, s), s.Nr)
GpuResult(op, inp, s) ==
    CopyToHost(Gemm(inp.shape[1], inp.shape[2], inp.shape[2], 1,
                    CopyToDevice(inp), DeviceMatrix(op, s), 0, s.d_out),
               inp.shape)
Result(op, inp, s) ==
    [shape |-> inp.shape,
     data |-> IF s.use_cuda THEN GpuResult(op, inp, s) ELSE CpuResult(op, inp, s)]

ConfiguredShape == <<args.Nz, args.Nr>>
IsTransformCall(c) == c.op \in {"transform", "inverse_transform"}

\* column j (from 1) of a host array, top to bottom
Column(A, j) == [i \in 1..A.shape[1] |-> A.data[(i - 1) * A.shape[2] + j]]

\* C1: every constructor call on a valid configuration ends by returning, and
\* the instance then holds M and invM, both of size Nr x Nr.
C1_ConstructionCompletes ==
    (Done /\ ValidArgs) =>
        /\ pc = "ready"
        /\ exc = NoError
        /\ IsSquare(self.M, args.Nr)
        /\ IsSquare(self.invM, args.Nr)

\* C2: a constructor call whose m is none of p-1, p, p+1 never gets past the
\* check of m, and ends by raising the error of the check; no instance exists.
C2_InvalidModeRejected ==
    ~ValidArgs =>
        /\ pc \in {"L55", "L72", "raised"}
        /\ pc = "raised" => exc = InvalidModeError
        /\ self.attrs \subseteq {"use_cuda", "blas", "d_in", "d_out",
                                 "dim_grid", "dim_block"}

\* a constructor call with an invalid m, at the top order of the sweep and in
\* GPU mode, has raised the error of the check
C2_Rejected ==
    /\ ~ValidArgs
    /\ args.p = MaxP
    /\ args.use_cuda /\ cuda_installed
    /\ pc = "raised"
    /\ exc = InvalidModeError

\* C3: on the instance of any valid configuration, transform then
\* inverse_transform gives back F; except when m /= 0 and p = m-1, where
\* column 0 of M is zero and the columns after column 0 are given back.
C3_RoundTrip ==
    (Done /\ ValidArgs) =>
        /\ pc = "ready"
        /\ \A F \in UnitArrays(ConfiguredShape) :
              LET F2 == Result("inverse_transform", Result("transform", F, self), self)
              IN  IF args.m # 0 /\ args.p = args.m - 1
                  THEN /\ \A i \in 1..args.Nr : self.M[i][1] = 0
                       /\ \A j \in 2..args.Nr : Column(F2, j) = Column(F, j)
                  ELSE F2 = F

\* C4: on the instance of any valid configuration, with the calls serialized,
\* a returned transform or inverse_transform call has written the product of
\* its input and the matrix, the one np.dot gives, whichever path it took and
\* whatever the scratch buffers held before.
C4_CpuGpuEquivalence ==
    (Done /\ ValidArgs) =>
        /\ pc = "ready"
        /\ \A F \in UnitArrays(ConfiguredShape) :
              \A op \in {"transform", "inverse_transform"} :
                  Result(op, F, self).data = CpuResult(op, F, self)
        /\ serialized =>
              \A t \in Threads :
                  (IsTransformCall(calls[t]) /\ calls[t].pc = "returned") =>
                      calls[t].out.data = CpuResult(calls[t].op, calls[t].inp, self)

\* C5: on the instance of any valid configuration, in either mode, a call
\* with an input or output array of another shape than (Nz, Nr) has raised
\* and its output array is as the caller passed it.
C5_ShapeEnforcement ==
    (Done /\ ValidArgs) =>
        /\ pc = "ready"
        /\ \A t \in Threads :
              (/\ IsTransformCall(calls[t])
               /\ (calls[t].inp.shape # ConfiguredShape
                   \/ calls[t].out.shape # ConfiguredShape)) =>
                  /\ calls[t].pc = "raised"
                  /\ calls[t].exc \in {ShapeMismatchError, DotShapeError}
                  /\ calls[t].out = StaleArray(calls[t].out.shape)

\* C6: on the instance of any valid configuration, a returned call that took
\* the CPU path, or any returned call when the callers serialize, has written
\* its own input times the matrix.
C6_ConcurrentCalls ==
    (Done /\ ValidArgs) =>
        /\ pc = "ready"
        /\ \A t \in Threads :
              (/\ IsTransformCall(calls[t])
               /\ calls[t].pc = "returned"
               /\ (calls[t].path = "cpu" \/ serialized)) =>
                  calls[t].out.data = CpuResult(calls[t].op, calls[t].inp, self)

\* C7: on the instance of any valid configuration, whatever calls were made,
\* r, nu, M, invM and the device copies are the ones the constructor computed
\* and the input array of every call is as it was passed.
C7_CallsLeaveInstance ==
    (Done /\ ValidArgs) =>
        /\ pc = "ready"
        /\ self.r = RGrid(args.Nr, args.rmax)
        /\ self.nu = NuGrid(Alphas(args.m, args.Nr), args.rmax)
        /\ self.invM = InvMatrix(args.p, args.m, args.Nr, args.rmax, self.r, self.nu)
        /\ self.M = ForwardMatrix(args.p, args.m, args.Nr, self.invM)
        /\ self.use_cuda =>
              /\ self.d_M = AsFortran(self.M, args.Nr, args.Nr)
              /\ self.d_invM = AsFortran(self.invM, args.Nr, args.Nr)
        /\ \A t \in Threads :
              /\ calls[t].inp = calls[t].passed
              /\ calls[t].op = "get_r" => calls[t].ret = self.r
              /\ calls[t].op = "get_nu" => calls[t].ret = self.nu

\* C8: a constructor call on a valid configuration that asks for the GPU
\* while none is available returns, has allocated no device resource and
\* left the instance in CPU mode; no call on the instance takes the GPU path.
C8_FallbackDecidedOnce ==
    (Done /\ ValidArgs /\ args.use_cuda /\ ~cuda_installed) =>
        /\ pc = "ready"
        /\ ~self.use_cuda
        /\ ~self.blas /\ self.d_in = <<>> /\ self.d_out = <<>>
        /\ self.d_M = <<>> /\ self.d_invM = <<>>
        /\ \A t \in Threads : calls[t].path # "gpu"

\* P is the Moore-Penrose pseudo-inverse of B (B has n columns, P has n rows)
IsPseudoInverse(P, B, n) ==
    LET BP == MatMul(B, P, Len(B))
        PB == MatMul(P, B, n)
    IN  /\ MatMul(BP, B, n) = B
        /\ MatMul(PB, P, Len(B)) = P
        /\ Transpose(BP, Len(B)) = BP
        /\ Transpose(PB, n) = PB

\* C9: on the instance of any valid configuration, row 0 of invM is zero
\* exactly when m /= 0 and p /= m-1; then column 0 of M is zero and the other
\* columns are the pseudo-inverse of invM without row 0; otherwise M is the
\* inverse of invM, and row 0 of invM is the closed form when m /= 0.
C9_MatrixPolicy ==
    (Done /\ ValidArgs) =>
        /\ pc = "ready"
        /\ LET n == args.Nr
               lost == args.m # 0 /\ args.p # args.m - 1
           IN  /\ lost <=> (\A j \in 1..n : self.invM[1][j] = 0)
               /\ lost =>
                     /\ \A i \in 1..n : self.M[i][1] = 0
                     /\ IsPseudoInverse([i \in 1..n |-> Tail(self.M[i])],
                                        Tail(self.invM), n)
               /\ ~lost =>
                     /\ MatMul(self.M, self.invM, n) = Identity(n)
                     /\ MatMul(self.invM, self.M, n) = Identity(n)
                     /\ args.m # 0 =>
                           \A j \in 1..n :
                               self.invM[1][j] =
                                   Div(Pow(self.r[j], args.m - 1),
                                       PiF * Pow(args.rmax, args.m + 1))

\* C10: when a constructor call has raised the error of the check of m, no
\* device resource (BLAS handle, d_in, d_out) has been allocated.
C10_ValidationBeforeAllocation ==
    (pc = "raised" /\ exc = InvalidModeError) =>
        /\ ~self.blas
        /\ self.d_in = <<>>
        /\ self.d_out = <<>>

\* ------------------------------- what the repaired program does (SpecRepaired)
\* the configurations in which row 0 of invM and column 0 of M are zero
Lost == args.m # 0 /\ args.p # args.m - 1

\* Round trip of the repaired program: transform then inverse_transform gives
\* back F in every configuration but the Lost ones; in those,
\* inverse_transform then transform gives back G with its column 0 zeroed.
Repaired_RoundTrip ==
    pc = "ready" =>
        \A A \in UnitArrays(ConfiguredShape) :
            IF ~Lost
            THEN Result("inverse_transform", Result("transform", A, self), self) = A
            ELSE LET G2 == Result("transform", Result("inverse_transform", A, self), self)
                 IN  /\ \A i \in 1..args.Nz : Column(G2, 1)[i] = 0
                     /\ \A j \in 2..args.Nr : Column(G2, j) = Column(A, j)

\* a Lost configuration in which transform then inverse_transform does not
\* give back some F
Repaired_LostRoundTrip ==
    /\ pc = "ready"
    /\ Lost
    /\ \E F \in UnitArrays(ConfiguredShape) :
          Result("inverse_transform", Result("transform", F, self), self) # F

\* Shapes in the repaired program: a GPU call goes on only with both arrays
\* of the configured shape; a CPU call goes on exactly when np.dot accepts the
\* arrays, whatever the configured Nz.
Repaired_ShapeChecks ==
    pc = "ready" =>
        \A t \in Threads :
            (IsTransformCall(calls[t]) /\ calls[t].pc # "raised") =>
                IF calls[t].path = "gpu"
                THEN calls[t].inp.shape = ConfiguredShape
                     /\ calls[t].out.shape = ConfiguredShape
                ELSE calls[t].inp.shape[2] = args.Nr
                     /\ calls[t].out.shape = <<calls[t].inp.shape[1], args.Nr>>

\* a CPU call with arrays of Nz + 1 rows that has returned and written its
\* output
Repaired_CpuOtherShape ==
    \E t \in Threads :
        /\ calls[t].pc = "returned"
        /\ calls[t].path = "cpu"
        /\ calls[t].inp.shape = <<args.Nz + 1, args.Nr>>
        /\ calls[t].out # StaleArray(calls[t].out.shape)

\* a call that failed left its output array as it was passed
Repaired_FailedCallWritesNothing ==
    \A t \in Threads :
        calls[t].pc = "raised" => calls[t].out = StaleArray(calls[t].out.shape)

\* without serialization (SpecRace): a returned GPU call whose output is not
\* its own input times the matrix
Repaired_GpuRace ==
    \E t \in Threads :
        /\ IsTransformCall(calls[t])
        /\ calls[t].pc = "returned"
        /\ calls[t].path = "gpu"
        /\ calls[t].out.data # CpuResult(calls[t].op, calls[t].inp, self)

====
